---- MODULE Spec2Model ----
(***************************************************************************)
(* Model of DiagnosticReportProcessor.process_report and the analyzers it  *)
(* drives (src/main_program/app.py, lines 76-364).                         *)
(*                                                                         *)
(* The artifact tree of a report is a value: every path the code touches   *)
(* is a node whose kind says what Path.exists / is_dir / open / read do on *)
(* it.  The text of an artifact file is represented by the set of marker   *)
(* phrases it contains, which is all the code ever asks of it              *)
(* ("phrase in content").                                                  *)
(***************************************************************************)
EXTENDS Integers, Sequences, FiniteSets, TLC

VARIABLES store, processed, outcome, error, lastHost, first

vars == <<store, processed, outcome, error, lastHost, first>>

----------------------------------------------------------------------------
(* Bounds of the model *)

MaxDisks == 4
MaxIfaces == 3
MaxInstant == 2

----------------------------------------------------------------------------
(* Artifact files *)

Absent == [kind |-> "absent", content |-> {}]
Unreadable == [kind |-> "ioerr", content |-> {}]
Undecodable == [kind |-> "decerr", content |-> {}]
Text(markers) == [kind |-> "text", content |-> markers]

\* Path.exists(): true for anything that is there, readable or not
Exists(f) == f.kind # "absent"

\* open(...).read() raising OSError (IOError): caught by the analyzers
RaisesIOError(f) == f.kind = "ioerr"

\* open(...).read() raising UnicodeDecodeError, a ValueError: not an IOError
RaisesDecodeError(f) == f.kind = "decerr"

\* "phrase in content"
Contains(f, phrase) == phrase \in f.content

SmartPassed == "SMART overall-health self-assessment test result: PASSED"

Get(m, key, default) == IF key \in DOMAIN m THEN m[key] ELSE default

NoDetails == [k \in {} |-> ""]

----------------------------------------------------------------------------
(* Subsystem analyzers.  Each returns [raised, status, score, details];    *)
(* raised is "" or the exception that leaves the analyzer.                 *)

\* the analysis dict kept from one call to the next instead of built afresh
NewAnalysisShared ==
    [status |-> "unknown",
     score |-> IF outcome = "returned" /\ "performance" \in DOMAIN processed.analysis
               THEN processed.analysis.performance.cpu.score ELSE 0,
     details |-> NoDetails]

NewAnalysis == [status |-> "unknown", score |-> 0, details |-> NoDetails]

\* "fair" only above 25
CpuStatusStrict(score) ==
    IF score >= 50 THEN "good" ELSE IF score > 25 THEN "fair" ELSE "poor"

CpuStatus(score) ==
    IF score >= 50 THEN "good" ELSE IF score >= 25 THEN "fair" ELSE "poor"

MemoryStatus(score) ==
    IF score >= 75 THEN "good" ELSE IF score >= 50 THEN "fair" ELSE "poor"

DiskStatus(score) ==
    IF score >= 50 THEN "good" ELSE IF score >= 25 THEN "fair" ELSE "poor"

NetworkStatus(score) ==
    IF score >= 75 THEN "good" ELSE IF score >= 50 THEN "fair" ELSE "poor"

\* one "if file.exists(): try: ... except IOError" block
CheckOutcome(f, pass, okLabel) ==
    IF RaisesIOError(f) THEN "error" ELSE IF pass THEN okLabel ELSE "failed"

\* the points for any file that could be read, whatever it contains
CheckPointsUnconditional(f, pass, points) ==
    IF Exists(f) /\ ~RaisesIOError(f) THEN points ELSE 0

CheckPoints(f, pass, points) ==
    IF Exists(f) /\ ~RaisesIOError(f) /\ pass THEN points ELSE 0

\* a path below a regular file does not exist
Child(dir, name) == IF dir.kind = "dir" THEN dir[name] ELSE Absent

_analyze_cpu_tests(cpu_dir) ==
    LET sysbench_file == Child(cpu_dir, "sysbench_cpu")
        stress_file == Child(cpu_dir, "stress_ng")
        present == {k \in {"sysbench", "stress_ng"} :
                      Exists(IF k = "sysbench" THEN sysbench_file ELSE stress_file)}
        Outcome(k) ==
            IF k = "sysbench"
            THEN CheckOutcome(sysbench_file,
                              Contains(sysbench_file, "execution time"), "completed")
            ELSE CheckOutcome(stress_file,
                              Contains(stress_file, "completed"), "completed")
        score == NewAnalysis.score
                 + CheckPoints(sysbench_file,
                               Contains(sysbench_file, "execution time"), 25)
                 + CheckPoints(stress_file, Contains(stress_file, "completed"), 25)
    IN  IF RaisesDecodeError(sysbench_file) \/ RaisesDecodeError(stress_file)
        THEN [raised |-> "UnicodeDecodeError", status |-> "unknown", score |-> 0,
              details |-> NoDetails]
        ELSE [raised |-> "", status |-> CpuStatus(score), score |-> score,
              details |-> [k \in present |-> Outcome(k)]]

_analyze_memory_tests(mem_dir) ==
    LET memtester_file == Child(mem_dir, "memtester")
        stress_file == Child(mem_dir, "stress_ng_memory")
        present == {k \in {"memtester", "stress_ng"} :
                      Exists(IF k = "memtester" THEN memtester_file ELSE stress_file)}
        memPass == Contains(memtester_file, "PASS") /\ ~Contains(memtester_file, "FAIL")
        Outcome(k) ==
            IF k = "memtester"
            THEN CheckOutcome(memtester_file, memPass, "passed")
            ELSE CheckOutcome(stress_file,
                              Contains(stress_file, "completed"), "completed")
        score == NewAnalysis.score
                 + CheckPoints(memtester_file, memPass, 50)
                 + CheckPoints(stress_file, Contains(stress_file, "completed"), 50)
    IN  IF RaisesDecodeError(memtester_file) \/ RaisesDecodeError(stress_file)
        THEN [raised |-> "UnicodeDecodeError", status |-> "unknown", score |-> 0,
              details |-> NoDetails]
        ELSE [raised |-> "", status |-> MemoryStatus(score), score |-> score,
              details |-> [k \in present |-> Outcome(k)]]

RECURSIVE SumPoints(_, _)
\* the "analysis['score'] += ..." accumulation over the entries of a directory
SumPoints(entries, names) ==
    IF names = {} THEN 0
    ELSE LET n == CHOOSE x \in names : TRUE
         IN  entries[n] + SumPoints(entries, names \ {n})

\* Path.is_dir() on an entry returned by iterdir()
IsDir(entry) == entry.kind = "dir"

_analyze_disk_tests(disk_dir) ==
    LET disks == IF disk_dir.kind = "dir"
                 THEN {n \in DOMAIN disk_dir.entries : IsDir(disk_dir.entries[n])}
                 ELSE {}
        smart_file(n) == disk_dir.entries[n].smart
        fio_read_file(n) == disk_dir.entries[n].fio_randread
        smartPass(n) == Contains(smart_file(n), SmartPassed)
        fioPass(n) == Contains(fio_read_file(n), "IOPS")
        present(n) == {k \in {"smart", "fio_read"} :
                         Exists(IF k = "smart" THEN smart_file(n) ELSE fio_read_file(n))}
        DiskDetails(n) ==
            [k \in present(n) |->
                IF k = "smart"
                THEN CheckOutcome(smart_file(n), smartPass(n), "passed")
                ELSE CheckOutcome(fio_read_file(n), fioPass(n), "completed")]
        points == [n \in disks |->
                      CheckPoints(smart_file(n), smartPass(n), 20)
                      + CheckPoints(fio_read_file(n), fioPass(n), 15)]
        score == NewAnalysis.score + SumPoints(points, disks)
    IN  IF disk_dir.kind # "dir"
        THEN [raised |-> "NotADirectoryError", status |-> "unknown", score |-> 0,
              details |-> NoDetails]
        ELSE IF \E n \in disks : RaisesDecodeError(smart_file(n))
                                   \/ RaisesDecodeError(fio_read_file(n))
        THEN [raised |-> "UnicodeDecodeError", status |-> "unknown", score |-> 0,
              details |-> NoDetails]
        ELSE [raised |-> "", status |-> DiskStatus(score), score |-> score,
              details |-> [n \in disks |-> DiskDetails(n)]]

_analyze_network_tests(net_dir) ==
    LET iperf_file == Child(net_dir, "iperf3_localhost")
        iperfPass == Contains(iperf_file, "receiver") /\ Contains(iperf_file, "sender")
        ifaces == IF net_dir.kind = "dir"
                  THEN {n \in DOMAIN net_dir.entries :
                          /\ IsDir(net_dir.entries[n]) /\ n # "lo"
                          /\ Exists(net_dir.entries[n].ethtool)}
                  ELSE {}
        keys == ifaces \cup (IF Exists(iperf_file) THEN {"iperf3"} ELSE {})
        points == [n \in ifaces |-> 25]
        score == NewAnalysis.score + CheckPoints(iperf_file, iperfPass, 50)
                 + SumPoints(points, ifaces)
    IN  IF RaisesDecodeError(iperf_file)
        THEN [raised |-> "UnicodeDecodeError", status |-> "unknown", score |-> 0,
              details |-> NoDetails]
        ELSE IF net_dir.kind # "dir"
        THEN [raised |-> "NotADirectoryError", status |-> "unknown", score |-> 0,
              details |-> NoDetails]
        ELSE [raised |-> "", status |-> NetworkStatus(score), score |-> score,
              details |-> [k \in keys |->
                             IF k = "iperf3"
                             THEN CheckOutcome(iperf_file, iperfPass, "completed")
                             ELSE "configured"]]

----------------------------------------------------------------------------
(* Performance aggregator *)

Components == <<"cpu", "memory", "disk", "network">>

\* the entry _analyze_performance starts every subsystem with
DefaultEntry == [raised |-> "", status |-> "unknown", score |-> 0]

Analyze(component, dir) ==
    CASE component = "cpu" -> _analyze_cpu_tests(dir)
      [] component = "memory" -> _analyze_memory_tests(dir)
      [] component = "disk" -> _analyze_disk_tests(dir)
      [] component = "network" -> _analyze_network_tests(dir)

\* perf_dir / component exists
SubdirExists(perf_dir, component) ==
    perf_dir.kind = "dir" /\ perf_dir[component].kind # "absent"

\* only the subsystems whose directory exists get an entry
_analyze_performance_omitting(perf_dir) ==
    [c \in {x \in {"cpu", "memory", "disk", "network"} : SubdirExists(perf_dir, x)} |->
        Analyze(c, perf_dir[c])]

_analyze_performance(perf_dir) ==
    [c \in {"cpu", "memory", "disk", "network"} |->
        IF SubdirExists(perf_dir, c) THEN Analyze(c, perf_dir[c]) ELSE DefaultEntry]

\* the exception that leaves _analyze_performance: that of the first analyzer,
\* in the order cpu, memory, disk, network, that raises ("" when none does)
RECURSIVE FirstRaised(_, _)
FirstRaised(perf, i) ==
    IF i > Len(Components) THEN ""
    ELSE IF Components[i] \in DOMAIN perf /\ perf[Components[i]].raised # ""
    THEN perf[Components[i]].raised
    ELSE FirstRaised(perf, i + 1)

----------------------------------------------------------------------------
(* Health scorer.  The code computes in double precision; here the unit is *)
(* 1/10000 of a point, so 25 is 250000, 18.75 is 187500 and                *)
(* score / 100 * 18.75 is score * 1875.  For every sum of subsystem scores *)
(* below 480 (the bounds of this model stay below it) the double-precision *)
(* value of total_score / max_score * 100 truncates to the same integer as *)
(* the exact quotient.                                                     *)

SystemPoints == 250000
ComponentPoints == 187500

\* (score / max_possible) * 18.75
Contribution(score) == score * 1875

\* round(x) instead of int(x)
ToIntRounded(num, den) == (2 * num * 100 + den) \div (2 * den)

\* int(x) for x = (num / den) * 100, x >= 0
ToInt(num, den) == (num * 100) \div den

RECURSIVE Accumulate(_, _, _)
\* the loop over ['cpu', 'memory', 'disk', 'network']: <<total_score, max_score>>
Accumulate(performance, i, acc) ==
    IF i > Len(Components) THEN acc
    ELSE IF Components[i] \in DOMAIN performance
    THEN Accumulate(performance, i + 1,
                    <<acc[1] + Contribution(Get(performance[Components[i]], "score", 0)),
                      acc[2] + ComponentPoints>>)
    ELSE Accumulate(performance, i + 1, acc)

_calculate_health_score(analysis) ==
    LET sys == IF "system" \in DOMAIN analysis
               THEN <<SystemPoints, SystemPoints>> ELSE <<0, 0>>
        performance == Get(analysis, "performance", NoDetails)
        totals == Accumulate(performance, 1, sys)
    IN  IF totals[2] = 0 THEN 0 ELSE ToInt(totals[1], totals[2])

----------------------------------------------------------------------------
(* Recommendation generator *)

CpuAdvice == "CPU performance is poor. Consider checking for thermal throttling or background processes."
MemoryAdvice == "Memory tests failed. Check for faulty RAM modules or memory configuration."
DiskAdvice == "Disk performance is poor. Check SMART status and consider replacing failing drives."
NetworkAdvice == "Network performance is poor. Check cable connections and switch configuration."
HealthyAdvice == "System appears to be healthy. Continue monitoring for any changes."

\* an advisory for every status but "good"
IsNotGood(performance, component) ==
    component \in DOMAIN performance
    /\ Get(performance[component], "status", "") # "good"

\* performance.get(component, {}).get('status') == 'poor'
IsPoor(performance, component) ==
    component \in DOMAIN performance
    /\ Get(performance[component], "status", "") = "poor"

_generate_recommendations(analysis) ==
    LET performance == Get(analysis, "performance", NoDetails)
        r1 == IF IsPoor(performance, "cpu") THEN <<CpuAdvice>> ELSE <<>>
        r2 == IF IsPoor(performance, "memory") THEN Append(r1, MemoryAdvice) ELSE r1
        r3 == IF IsPoor(performance, "disk") THEN Append(r2, DiskAdvice) ELSE r2
        r4 == IF IsPoor(performance, "network") THEN Append(r3, NetworkAdvice) ELSE r3
    IN  IF r4 = <<>> THEN <<HealthyAdvice>> ELSE r4

----------------------------------------------------------------------------
(* Report processor *)

\* the performance block built without asking whether the directory exists
PerformanceAlways(artifacts) == TRUE

\* Path(report_data['_path']) / "performance" exists
PerformanceExists(artifacts) == artifacts.performance.kind # "absent"

SystemBlock(report_data) ==
    LET system_info == Get(report_data, "system_info", NoDetails)
    IN  [cpu_count |-> Get(system_info, "cpu_count", 0),
         memory_gb |-> Get(system_info, "memory_gb", 0),
         architecture |-> Get(system_info, "architecture", "unknown"),
         kernel |-> Get(system_info, "kernel", "unknown")]

\* what an analyzer returns, without the model's exception marker
Result(entry) == [k \in DOMAIN entry \ {"raised"} |-> entry[k]]

\* the system block only for a report that has system_info
AnalysisOfGivenInfo(report_data, artifacts) ==
    LET performance == LET perf == _analyze_performance(artifacts.performance)
                       IN  [c \in DOMAIN perf |-> Result(perf[c])]
    IN  CASE "system_info" \in DOMAIN report_data /\ PerformanceExists(artifacts) ->
                [system |-> SystemBlock(report_data), performance |-> performance]
          [] "system_info" \in DOMAIN report_data /\ ~PerformanceExists(artifacts) ->
                [system |-> SystemBlock(report_data)]
          [] "system_info" \notin DOMAIN report_data /\ PerformanceExists(artifacts) ->
                [performance |-> performance]
          [] OTHER -> NoDetails

\* processed['analysis'] once the system block and the performance block are in
AnalysisOf(report_data, artifacts) ==
    IF PerformanceExists(artifacts)
    THEN [system |-> SystemBlock(report_data),
          performance |->
              LET perf == _analyze_performance(artifacts.performance)
              IN  [c \in DOMAIN perf |-> Result(perf[c])]]
    ELSE [system |-> SystemBlock(report_data)]

\* the exception that leaves process_report, "" when it returns
RaisedBy(artifacts) ==
    IF PerformanceExists(artifacts)
    THEN FirstRaised(_analyze_performance(artifacts.performance), 1)
    ELSE ""

process_report(report_data, artifacts, now) ==
    LET analysis == AnalysisOf(report_data, artifacts)
    IN  [hostname |-> Get(report_data, "hostname", "unknown"),
         timestamp |-> Get(report_data, "timestamp", ""),
         processed_at |-> now,
         analysis |-> analysis,
         health_score |-> _calculate_health_score(analysis),
         issues |-> <<>>,
         recommendations |-> _generate_recommendations(analysis)]

----------------------------------------------------------------------------
(* The reports and artifact trees the model is run on *)

DiskNames == <<"sda", "sdb", "sdc", "sdd", "sde", "sdf", "sdg", "sdh">>
IfaceNames == <<"eth0", "eth1", "eth2", "eth3", "eth4", "eth5", "eth6", "eth7">>

Faulty == {Unreadable, Undecodable}
FilesWith(markers) == {Absent} \cup Faulty \cup {Text(c) : c \in SUBSET markers}

CpuDir(sysbench, stress) ==
    [kind |-> "dir", sysbench_cpu |-> sysbench, stress_ng |-> stress]
MemoryDir(memtester, stress) ==
    [kind |-> "dir", memtester |-> memtester, stress_ng_memory |-> stress]
DiskEntry(kind, smart, fio) == [kind |-> kind, smart |-> smart, fio_randread |-> fio]
DiskDir(entries) == [kind |-> "dir", entries |-> entries]
IfaceEntry(kind, ethtool) == [kind |-> kind, ethtool |-> ethtool]
NetworkDir(iperf, entries) ==
    [kind |-> "dir", iperf3_localhost |-> iperf, entries |-> entries]

\* a path that is absent, and a path that is a regular file
NoCpuDir(kind) == [kind |-> kind, sysbench_cpu |-> Absent, stress_ng |-> Absent]
NoMemoryDir(kind) == [kind |-> kind, memtester |-> Absent, stress_ng_memory |-> Absent]
NoDiskDir(kind) == [kind |-> kind, entries |-> NoDetails]
NoNetworkDir(kind) == [kind |-> kind, iperf3_localhost |-> Absent, entries |-> NoDetails]

PassingCpu == CpuDir(Text({"execution time"}), Text({"completed"}))
PassingMemory == MemoryDir(Text({"PASS"}), Text({"completed"}))
PassingDisk == DiskEntry("dir", Text({SmartPassed}), Text({"IOPS"}))
PassingDisks(n) == DiskDir([d \in {DiskNames[i] : i \in 1..n} |-> PassingDisk])
PassingNetwork(m) ==
    NetworkDir(Text({"receiver", "sender"}),
               [d \in {IfaceNames[i] : i \in 1..m} |-> IfaceEntry("dir", Text({}))])

\* every state of every file of one subsystem
CpuDirs ==
    {NoCpuDir("absent"), NoCpuDir("file")}
    \cup {CpuDir(a, b) : a \in FilesWith({"execution time"}),
                         b \in FilesWith({"completed"})}
MemoryDirs ==
    {NoMemoryDir("absent"), NoMemoryDir("file")}
    \cup {MemoryDir(a, b) : a \in FilesWith({"PASS", "FAIL"}),
                            b \in FilesWith({"completed"})}
DiskEntries ==
    {DiskEntry("file", Absent, Absent)}
    \cup {DiskEntry("dir", a, b) : a \in FilesWith({SmartPassed}),
                                   b \in FilesWith({"IOPS"})}
DiskDirs ==
    {NoDiskDir("absent"), NoDiskDir("file")}
    \cup {DiskDir(e) : e \in UNION {[names -> DiskEntries] : names \in {{}, {"sda"}}}}
    \cup {DiskDir([d \in {"sda", "sdb"} |-> IF d = "sda" THEN e ELSE PassingDisk]) :
             e \in DiskEntries}
IfaceEntries ==
    {IfaceEntry("file", Absent)}
    \cup {IfaceEntry("dir", f) : f \in {Absent, Unreadable, Text({})}}
NetworkDirs ==
    {NoNetworkDir("absent"), NoNetworkDir("file")}
    \cup {NetworkDir(f, [d \in names |-> IF d = "lo" THEN IfaceEntry("dir", Text({})) ELSE e]) :
             f \in FilesWith({"receiver", "sender"}),
             names \in SUBSET {"lo", "eth0"},
             e \in IfaceEntries}

\* a subsystem that is absent, or there with no artifact in it
OtherCpu == {NoCpuDir("absent"), CpuDir(Absent, Absent)}
OtherMemory == {NoMemoryDir("absent"), MemoryDir(Absent, Absent)}
OtherDisk == {NoDiskDir("absent"), DiskDir(NoDetails)}
OtherNetwork == {NoNetworkDir("absent"), NetworkDir(Absent, NoDetails)}

\* a subsystem that is absent, empty, or passes every check on 0..Max devices
CoarseCpu == OtherCpu \cup {PassingCpu}
CoarseMemory == OtherMemory \cup {PassingMemory}
CoarseDisk == OtherDisk \cup {PassingDisks(n) : n \in 0..MaxDisks}
CoarseNetwork == OtherNetwork \cup {PassingNetwork(m) : m \in 0..MaxIfaces}

PerformanceDir(cpu, memory, disk, network) ==
    [kind |-> "dir", cpu |-> cpu, memory |-> memory, disk |-> disk, network |-> network]
NoPerformanceDir(kind) ==
    [kind |-> kind, cpu |-> NoCpuDir("absent"), memory |-> NoMemoryDir("absent"),
     disk |-> NoDiskDir("absent"), network |-> NoNetworkDir("absent")]

\* the trees: no performance directory; every subsystem absent, empty or
\* passing; one subsystem in every state of its files, the others absent or empty
Trees ==
    {[performance |-> NoPerformanceDir(k)] : k \in {"absent", "file"}}
    \cup {[performance |-> PerformanceDir(c, m, d, n)] :
             c \in CoarseCpu, m \in CoarseMemory, d \in CoarseDisk, n \in CoarseNetwork}
    \cup {[performance |-> PerformanceDir(c, m, d, n)] :
             c \in CpuDirs, m \in OtherMemory, d \in OtherDisk, n \in OtherNetwork}
    \cup {[performance |-> PerformanceDir(c, m, d, n)] :
             c \in OtherCpu, m \in MemoryDirs, d \in OtherDisk, n \in OtherNetwork}
    \cup {[performance |-> PerformanceDir(c, m, d, n)] :
             c \in OtherCpu, m \in OtherMemory, d \in DiskDirs, n \in OtherNetwork}
    \cup {[performance |-> PerformanceDir(c, m, d, n)] :
             c \in OtherCpu, m \in OtherMemory, d \in OtherDisk, n \in NetworkDirs}

FullSystemInfo ==
    [cpu_count |-> 8, memory_gb |-> 16, architecture |-> "x86_64", kernel |-> "6.1"]
FullReport ==
    [hostname |-> "node1", timestamp |-> "2024-01-01T00:00:00",
     system_info |-> FullSystemInfo]
Reports ==
    {FullReport,
     [hostname |-> "node1", timestamp |-> "2024-01-01T00:00:00"],
     [system_info |-> [cpu_count |-> 8]],
     [k \in {} |-> ""]}

\* the inputs of the host under analysis: every tree with the full report,
\* and every report with the trees around an absent performance directory
Inputs ==
    {[report_data |-> FullReport, artifacts |-> t] : t \in Trees}
    \cup {[report_data |-> r, artifacts |-> [performance |-> p]] :
             r \in Reports,
             p \in {NoPerformanceDir("absent"),
                    PerformanceDir(NoCpuDir("absent"), NoMemoryDir("absent"),
                                   NoDiskDir("absent"), NoNetworkDir("absent")),
                    PerformanceDir(PassingCpu, PassingMemory,
                                   PassingDisks(1), PassingNetwork(1))}}

\* the inputs of the other host, analysed in between
PeerInputs ==
    {[report_data |-> [hostname |-> "node2"],
      artifacts |-> [performance |->
          PerformanceDir(CpuDir(Text({"execution time"}), Absent), PassingMemory,
                         NoDiskDir("absent"), PassingNetwork(0))]]}

----------------------------------------------------------------------------
(* The processor as a state machine: the report store, and the last call   *)
(* of process_report with what it returned or raised.                      *)

Hosts == {"node1", "node2"}

NoRecord == [k \in {} |-> ""]

\* everything of an Analysis Record but processed_at
Stable(record) == [k \in DOMAIN record \ {"processed_at"} |-> record[k]]

\* first[h] is the record the first call on host h returned
Init ==
    /\ store \in {[h \in Hosts |-> IF h = "node1" THEN i ELSE p] :
                     i \in Inputs, p \in PeerInputs}
    /\ processed = NoRecord
    /\ outcome = "none"
    /\ error = ""
    /\ lastHost = ""
    /\ first = [h \in Hosts |-> NoRecord]

\* one call processor.process_report(processor.get_report(h)) at instant now
ProcessReport(h, now) ==
    LET report_data == store[h].report_data
        artifacts == store[h].artifacts
        raised == RaisedBy(artifacts)
    IN  /\ lastHost' = h
        /\ IF raised # ""
           THEN /\ outcome' = "raised"
                /\ error' = raised
                /\ UNCHANGED <<processed, first>>
           ELSE /\ outcome' = "returned"
                /\ error' = ""
                /\ processed' = process_report(report_data, artifacts, now)
                /\ first' = IF first[h] = NoRecord
                            THEN [first EXCEPT ![h] = processed']
                            ELSE first
        /\ UNCHANGED store

Next == \E h \in Hosts, now \in 1..MaxInstant : ProcessReport(h, now)

Spec == Init /\ [][Next]_vars

----------------------------------------------------------------------------
(* Properties *)

Returned == outcome = "returned"
LastReport == store[lastHost].report_data
LastPerformanceDir == store[lastHost].artifacts.performance
HasPerformance == "performance" \in DOMAIN processed.analysis
Performance == processed.analysis.performance

\* the directory of subsystem c is there (as a directory or as anything else)
Tested(c) == LastPerformanceDir.kind = "dir" /\ LastPerformanceDir[c].kind # "absent"

\* the thresholds of the subsystems
ThresholdStatus(c, score) ==
    LET good == IF c \in {"cpu", "disk"} THEN 50 ELSE 75
        fair == IF c \in {"cpu", "disk"} THEN 25 ELSE 50
    IN  CASE score >= good -> "good"
          [] score < good /\ score >= fair -> "fair"
          [] score < fair -> "poor"

RECURSIVE SumScores(_, _)
SumScores(perf, cs) ==
    IF cs = {} THEN 0
    ELSE LET c == CHOOSE x \in cs : TRUE
         IN  perf[c].score + SumScores(perf, cs \ {c})

\* C1: the health_score process_report returns is an integer in 0..100
C1_HealthInRange ==
    Returned => processed.health_score \in 0..100

\* C2: the score of every Subsystem Result an analyzer produces is in 0..100
C2_ScoreInRange ==
    Returned /\ HasPerformance =>
        \A c \in DOMAIN Performance : Tested(c) => Performance[c].score \in 0..100

\* C3 (as claimed): the status of every entry of analysis.performance is the
\* one the subsystem's thresholds give its score
C3_StatusByScore ==
    Returned /\ HasPerformance =>
        \A c \in DOMAIN Performance :
            Performance[c].status = ThresholdStatus(c, Performance[c].score)

\* C3 (amended): the status of the entry of a subsystem whose directory exists
\* is the one the thresholds give its score; the entry of a subsystem whose
\* directory is absent has score 0 and status "unknown"
C3_StatusByScoreWhenTested ==
    Returned /\ HasPerformance =>
        \A c \in DOMAIN Performance :
            IF Tested(c)
            THEN Performance[c].status = ThresholdStatus(c, Performance[c].score)
            ELSE Performance[c].status = "unknown" /\ Performance[c].score = 0

C3_Witness ==
    /\ Returned /\ HasPerformance
    /\ Tested("cpu") /\ Performance["cpu"].score = 25 /\ Performance["cpu"].status = "fair"
    /\ Tested("disk") /\ Performance["disk"].score = 0 /\ Performance["disk"].status = "poor"
    /\ ~Tested("memory") /\ Performance["memory"].status = "unknown"

\* C4 (as claimed): a subsystem whose directory is absent has no entry in
\* analysis.performance
C4_AbsentOmitted ==
    Returned /\ LastPerformanceDir.kind # "absent" =>
        \A c \in {"cpu", "memory", "disk", "network"} :
            ~Tested(c) => (HasPerformance => c \notin DOMAIN Performance)

\* C4 (amended): a subsystem whose directory is absent has the entry
\* {status "unknown", score 0}, and the possible total is 100 whatever
\* directories exist: health_score is 25 + 18.75 * (sum of the scores of the
\* subsystems whose directory exists) / 100, truncated
C4_AbsentDefaulted ==
    Returned /\ LastPerformanceDir.kind # "absent" =>
        /\ HasPerformance
        /\ \A c \in {"cpu", "memory", "disk", "network"} :
              ~Tested(c) =>
                  /\ c \in DOMAIN Performance
                  /\ Performance[c] = [status |-> "unknown", score |-> 0]
        /\ LET tested == {c \in DOMAIN Performance : Tested(c)}
           IN  processed.health_score = 25 + (3 * SumScores(Performance, tested)) \div 16

C4_Witness ==
    /\ Returned /\ HasPerformance
    /\ ~Tested("cpu") /\ ~Tested("disk")
    /\ Tested("memory") /\ Performance["memory"].score = 100
    /\ Tested("network") /\ Performance["network"].score = 100
    /\ processed.health_score = 62

\* total_earned and total_possible of the aggregate, in 1/10000 of a point
Earned ==
    250000 + (IF HasPerformance
              THEN 1875 * SumScores(Performance, DOMAIN Performance) ELSE 0)
Possible ==
    250000 + (IF HasPerformance THEN 187500 * Cardinality(DOMAIN Performance) ELSE 0)

\* C5 (as claimed): health_score is total_earned / total_possible * 100
\* rounded to the nearest integer
C5_Rounded ==
    Returned =>
        LET d == processed.health_score * Possible - Earned * 100
        IN  2 * (IF d < 0 THEN -d ELSE d) <= Possible

\* C5 (amended): health_score is total_earned / total_possible * 100
\* truncated to an integer
C5_Truncated ==
    Returned =>
        /\ processed.health_score * Possible <= Earned * 100
        /\ Earned * 100 < (processed.health_score + 1) * Possible

\* the ratio 0.296875 = 19/64 of the claim's example
C5_Witness ==
    /\ Returned
    /\ Earned * 64 = 19 * Possible
    /\ processed.health_score = 29

NoSystemInfoNoPerformance ==
    /\ Returned
    /\ "system_info" \notin DOMAIN LastReport
    /\ LastPerformanceDir.kind = "absent"

\* C6 (as claimed): without system_info and without a performance directory
\* health_score is 0
C6_ZeroWithoutInput ==
    NoSystemInfoNoPerformance => processed.health_score = 0

\* C6 (amended): without system_info and without a performance directory the
\* system block is still built, from the defaults, and health_score is 100
C6_FullWithoutInput ==
    NoSystemInfoNoPerformance =>
        /\ processed.analysis =
              [system |-> [cpu_count |-> 0, memory_gb |-> 0,
                           architecture |-> "unknown", kernel |-> "unknown"]]
        /\ processed.health_score = 100

C6_Witness ==
    NoSystemInfoNoPerformance /\ processed.health_score = 100

SystemInfoNoPerformance ==
    /\ Returned
    /\ "system_info" \in DOMAIN LastReport
    /\ LastPerformanceDir.kind = "absent"

\* C7: with system_info and without a performance directory the record has no
\* analysis.performance key and health_score is 100
C7_SystemOnly ==
    SystemInfoNoPerformance =>
        /\ "performance" \notin DOMAIN processed.analysis
        /\ processed.health_score = 100

C7_Witness ==
    /\ SystemInfoNoPerformance
    /\ processed.analysis.system.cpu_count = 8
    /\ processed.health_score = 100

AdviceFor(c) ==
    CASE c = "cpu" -> CpuAdvice
      [] c = "memory" -> MemoryAdvice
      [] c = "disk" -> DiskAdvice
      [] c = "network" -> NetworkAdvice

\* the subsystems of status "poor", in the order cpu, memory, disk, network
PoorSubsystems ==
    LET Poor(c) == HasPerformance /\ c \in DOMAIN Performance
                   /\ Performance[c].status = "poor"
    IN  SelectSeq(<<"cpu", "memory", "disk", "network">>, Poor)

\* C8: recommendations holds one advisory per subsystem of status "poor" and
\* no other, in the order cpu, memory, disk, network; the "system healthy"
\* message is there exactly when there is no advisory, and then alone
C8_Recommendations ==
    Returned =>
        LET recs == processed.recommendations
        IN  /\ Len(recs) >= 1
            /\ IF PoorSubsystems = <<>>
               THEN recs = <<HealthyAdvice>>
               ELSE /\ Len(recs) = Len(PoorSubsystems)
                    /\ \A i \in 1..Len(recs) : recs[i] = AdviceFor(PoorSubsystems[i])

C8_Witness ==
    /\ Returned /\ HasPerformance
    /\ Performance["memory"].status = "unknown"
    /\ Performance["network"].status = "good"
    /\ processed.recommendations = <<CpuAdvice, DiskAdvice>>

\* C9: process_report never raises
C9_NeverRaises ==
    outcome # "raised"

PointsIf(f, required, forbidden, points) ==
    IF required \subseteq f.content /\ forbidden \cap f.content = {} THEN points ELSE 0

\* the sum of the fixed points of the passing checks of subsystem c, read off
\* the artifact tree of the last call
FixedPoints(c) ==
    LET dir == LastPerformanceDir[c]
        subdirs == {n \in DOMAIN dir.entries : dir.entries[n].kind = "dir"}
    IN  CASE c = "cpu" ->
                PointsIf(dir.sysbench_cpu, {"execution time"}, {}, 25)
                + PointsIf(dir.stress_ng, {"completed"}, {}, 25)
          [] c = "memory" ->
                PointsIf(dir.memtester, {"PASS"}, {"FAIL"}, 50)
                + PointsIf(dir.stress_ng_memory, {"completed"}, {}, 50)
          [] c = "disk" ->
                20 * Cardinality({n \in subdirs :
                                    SmartPassed \in dir.entries[n].smart.content})
                + 15 * Cardinality({n \in subdirs :
                                      "IOPS" \in dir.entries[n].fio_randread.content})
          [] c = "network" ->
                PointsIf(dir.iperf3_localhost, {"receiver", "sender"}, {}, 50)
                + 25 * Cardinality({n \in subdirs \ {"lo"} :
                                      dir.entries[n].ethtool.kind # "absent"})

\* C11: the score of every subsystem analyzer is the sum of the fixed points of
\* its passing checks: cpu 25 + 25, memory 50 + 50, disk 20 + 15 per disk
\* subdirectory, network 50 + 25 per interface subdirectory other than lo with an
\* ethtool.txt; a missing file or a file without its marker adds 0
C11_ScoreIsSumOfPoints ==
    Returned /\ HasPerformance =>
        \A c \in {"cpu", "memory", "disk", "network"} :
            Tested(c) => Performance[c].score = FixedPoints(c)

\* two disks that pass SMART and fio: 70, "good"
C11_Witness ==
    /\ Returned /\ HasPerformance /\ Tested("disk")
    /\ DOMAIN LastPerformanceDir.disk.entries = {"sda", "sdb"}
    /\ \A n \in {"sda", "sdb"} :
          /\ SmartPassed \in LastPerformanceDir.disk.entries[n].smart.content
          /\ "IOPS" \in LastPerformanceDir.disk.entries[n].fio_randread.content
    /\ Performance["disk"].score = 70
    /\ Performance["disk"].status = "good"

====
